---- MODULE Spec2Model ----
(***************************************************************************)
(* Model of the webhook receiver of app.py (Flask front end, one asyncio   *)
(* worker thread, a TelegramBot instance) and of the Drive side of         *)
(* services/google_service.py.                                             *)
(*                                                                         *)
(* Three specifications share the variables:                               *)
(*   Spec         the life of one process: module import runs startup(),   *)
(*                the worker thread creates and runs the loop, the HTTP    *)
(*                layer serves only once startup() has returned;           *)
(*   WebhookSpec  the webhook handler as a function of the module globals  *)
(*                (bot, loop, bot_ready of lines 46-49) and of the         *)
(*                request, over every value those globals can hold;        *)
(*   AdapterSpec  a GoogleService object: authenticate and create_folder   *)
(*                against a remote Drive that can fail.                    *)
(***************************************************************************)
EXTENDS Integers, Sequences, FiniteSets, TLC

\* ------------------------------------------------------------- bounds
MaxUpdates == 2      \* processing tasks accepted per behaviour
MaxRequests == 3     \* HTTP requests handled per behaviour
HttpThreads == 2     \* concurrent request-handling threads of the server
MaxFolders == 2      \* create_folder calls per behaviour (AdapterSpec)

\* ------------------------------------------------------------- state
VARIABLES
    bot,              \* global bot: "None" or "Bot"
    google_service,   \* bot.google_service is set (truthy)
    loop,             \* global loop: "None", "open" or "closed"
    loop_thread,      \* global loop_thread: "None" or "Thread"
    bot_ready,        \* global bot_ready
    main_pc,          \* position of the main thread in startup()
    exit_code,        \* status passed to exit(), -1 while none
    loop_seen,        \* what line 70 read from the global loop: unread, None or open
    worker_pc,        \* position of the worker thread in create_and_run_loop
    queue,            \* callbacks scheduled on the loop, in submission order
    task_state,       \* per task: none, queued, active, adapter, awaiting, done, raised
    init_result,      \* result of the initialize_bot_async future
    started,          \* tasks in the order the worker began them
    http_pc,          \* per HTTP thread: idle or the route whose adapter call it is in
    nreq,             \* HTTP requests handled so far
    last_webhook,     \* the last /webhook request and its response
    last_diag,        \* the last diagnostic request and its response
    threads_created,  \* threading.Thread objects started
    loops_created,    \* asyncio.new_event_loop() calls that returned
    loop_assigns,     \* assignments to the global loop
    ready_changes,    \* changes of value of bot_ready
    service_drive,    \* GoogleService.service_drive is built
    drive_folders,    \* folders of the remote Drive, in creation order
    cf_last,          \* the last create_folder call and its outcome
    ncf               \* create_folder calls so far

appVars == <<bot, google_service, loop, loop_thread, bot_ready, main_pc, exit_code,
             loop_seen, worker_pc, queue, task_state, init_result, started, http_pc, nreq,
             last_webhook, last_diag, threads_created, loops_created, loop_assigns,
             ready_changes>>
gsVars == <<service_drive, drive_folders, cf_last, ncf>>
vars == <<appVars, gsVars>>

InitTask == 0
UpdateTasks == 1..MaxUpdates
Tasks == {InitTask} \cup UpdateTasks
Threads == 1..HttpThreads

Bodies == {"empty", "malformed", "falsy", "bad_update", "update"}
DiagRoutes == {"index", "test_service_account", "cleanup"}

NoWebhook == [handled |-> FALSE, ready |-> FALSE, bot |-> "None", loop |-> "None",
              body |-> "empty", code |-> 0, status |-> "none", body_read |-> FALSE,
              submit_ok |-> TRUE, submitted |-> 0, task |-> 0, task_state |-> "none"]
NoDiag == [route |-> "none", code |-> 0, thread |-> "none"]
NoCreateFolder == [called |-> FALSE, authenticated |-> FALSE, create |-> "none",
                   permission |-> "none", ret |-> 0, raised |-> FALSE]

\* tasks the loop holds or has held
Scheduled == {t \in Tasks : task_state[t] # "none"}
ScheduledUpdates == Scheduled \cap UpdateTasks
\* the worker thread is inside a task (cooperative scheduler: one at a time)
WorkerBusy == \E t \in Tasks : task_state[t] \in {"active", "adapter"}
ProcessAlive == main_pc # "exited"

\* ------------------------------------------------- main thread: startup()

\* exit(1): SystemExit unwinds the import; the interpreter then shuts down
Exit ==
    /\ main_pc' = "exiting"
    /\ exit_code' = 1

\* start_event_loop, lines 64-66: one Thread object, started
start_event_loop_spawn ==
    /\ main_pc = "start"
    /\ loop_thread' = "Thread"
    /\ threads_created' = threads_created + 1
    /\ worker_pc' = "spawned"
    /\ main_pc' = "sleep"
    /\ UNCHANGED <<bot, google_service, loop, bot_ready, exit_code, loop_seen, queue,
                   task_state, init_result, started, http_pc, nreq, last_webhook,
                   last_diag, loops_created, loop_assigns, ready_changes, gsVars>>

\* the bug of retrying the spawn when the loop is not there yet
start_event_loop_return_retry ==
    /\ main_pc = "sleep"
    /\ loop_seen' = loop
    /\ main_pc' = IF loop # "None" THEN "initialize_bot" ELSE "start"
    /\ UNCHANGED <<bot, google_service, loop, loop_thread, bot_ready, exit_code,
                   worker_pc, queue, task_state, init_result, started, http_pc, nreq,
                   last_webhook, last_diag, threads_created, loops_created,
                   loop_assigns, ready_changes, gsVars>>

\* the bug of not looking at the loop after the sleep
start_event_loop_return_unchecked ==
    /\ main_pc = "sleep"
    /\ loop_seen' = loop
    /\ main_pc' = "initialize_bot"
    /\ UNCHANGED <<bot, google_service, loop, loop_thread, bot_ready, exit_code,
                   worker_pc, queue, task_state, init_result, started, http_pc, nreq,
                   last_webhook, last_diag, threads_created, loops_created,
                   loop_assigns, ready_changes, gsVars>>

\* start_event_loop, lines 69-70, and startup's test of it, lines 279-281: the
\* sleep ends, `loop is not None` is read, and a False result is fatal
start_event_loop_return ==
    /\ main_pc = "sleep"
    /\ loop_seen' = loop
    /\ IF loop # "None"
       THEN main_pc' = "initialize_bot" /\ UNCHANGED exit_code
       ELSE Exit
    /\ UNCHANGED <<bot, google_service, loop, loop_thread, bot_ready, worker_pc, queue,
                   task_state, init_result, started, http_pc, nreq, last_webhook,
                   last_diag, threads_created, loops_created, loop_assigns,
                   ready_changes, gsVars>>

\* initialize_bot, lines 96-101, and startup's test, lines 285-287: without a
\* loop it returns False (fatal); otherwise the coroutine is handed to the loop
initialize_bot ==
    /\ main_pc = "initialize_bot"
    /\ IF loop = "None"
       THEN /\ Exit
            /\ UNCHANGED <<queue, task_state>>
       ELSE /\ queue' = Append(queue, InitTask)
            /\ task_state' = [task_state EXCEPT ![InitTask] = "queued"]
            /\ main_pc' = "future_result"
            /\ UNCHANGED exit_code
    /\ UNCHANGED <<bot, google_service, loop, loop_thread, bot_ready, loop_seen,
                   worker_pc, init_result, started, http_pc, nreq, last_webhook,
                   last_diag, threads_created, loops_created, loop_assigns,
                   ready_changes, gsVars>>

\* initialize_bot, line 102, the future completes within the 60 seconds, and
\* startup's test of the result, lines 285-287
future_result_returns ==
    /\ main_pc = "future_result"
    /\ init_result # "pending"
    /\ IF init_result = "True"
       THEN main_pc' = "access_test" /\ UNCHANGED exit_code
       ELSE Exit
    /\ UNCHANGED <<bot, google_service, loop, loop_thread, bot_ready, loop_seen,
                   worker_pc, queue, task_state, init_result, started, http_pc, nreq,
                   last_webhook, last_diag, threads_created, loops_created,
                   loop_assigns, ready_changes, gsVars>>

\* the bug of going on with startup when the wait for the future times out
future_result_timeout_ignored ==
    /\ main_pc = "future_result"
    /\ init_result = "pending"
    /\ main_pc' = "access_test"
    /\ UNCHANGED <<bot, google_service, loop, loop_thread, bot_ready, exit_code,
                   loop_seen, worker_pc, queue, task_state, init_result, started,
                   http_pc, nreq, last_webhook, last_diag, threads_created,
                   loops_created, loop_assigns, ready_changes, gsVars>>

\* initialize_bot, lines 102-105: the 60 seconds pass first; the TimeoutError is
\* caught, False is returned and startup exits. The task is not cancelled.
future_result_timeout ==
    /\ main_pc = "future_result"
    /\ init_result = "pending"
    /\ Exit
    /\ UNCHANGED <<bot, google_service, loop, loop_thread, bot_ready, loop_seen,
                   worker_pc, queue, task_state, init_result, started, http_pc, nreq,
                   last_webhook, last_diag, threads_created, loops_created,
                   loop_assigns, ready_changes, gsVars>>

\* the bug of taking the service down when the access test fails
startup_flag_after_test_reset(flag, passed) == IF passed THEN flag ELSE FALSE

\* startup, lines 291-299: the result of the access test is only logged; the
\* flag that `global bot_ready` of line 273 names is not assigned
startup_flag_after_test(flag, passed) == flag

\* startup line 291 into test_service_account_access, lines 109-115: without
\* bot.google_service the test is False at once; otherwise the main thread
\* itself calls bot.google_service.test_service_account_access()
startup_access_test_call ==
    /\ main_pc = "access_test"
    /\ IF bot = "None" \/ ~google_service
       THEN /\ main_pc' = "serving"
            /\ bot_ready' = startup_flag_after_test(bot_ready, FALSE)
       ELSE /\ main_pc' = "in_access_test"
            /\ UNCHANGED bot_ready
    /\ ready_changes' = ready_changes + (IF bot_ready' # bot_ready THEN 1 ELSE 0)
    /\ UNCHANGED <<bot, google_service, loop, loop_thread, exit_code,
                   loop_seen, worker_pc, queue, task_state, init_result, started,
                   http_pc, nreq, last_webhook, last_diag, threads_created,
                   loops_created, loop_assigns, gsVars>>

\* test_service_account_access returns True or False, lines 117-126, and
\* startup completes, lines 293-299
startup_access_test_return(passed) ==
    /\ main_pc = "in_access_test"
    /\ main_pc' = "serving"
    /\ bot_ready' = startup_flag_after_test(bot_ready, passed)
    /\ ready_changes' = ready_changes + (IF bot_ready' # bot_ready THEN 1 ELSE 0)
    /\ UNCHANGED <<bot, google_service, loop, loop_thread, exit_code,
                   loop_seen, worker_pc, queue, task_state, init_result, started,
                   http_pc, nreq, last_webhook, last_diag, threads_created,
                   loops_created, loop_assigns, gsVars>>

\* the interpreter ends after exit(1); the daemon worker thread dies with it
process_exit ==
    /\ main_pc = "exiting"
    /\ main_pc' = "exited"
    /\ UNCHANGED <<bot, google_service, loop, loop_thread, bot_ready, exit_code,
                   loop_seen, worker_pc, queue, task_state, init_result, started,
                   http_pc, nreq, last_webhook, last_diag, threads_created,
                   loops_created, loop_assigns, ready_changes, gsVars>>

\* ------------------------------------------- worker thread: the event loop

\* create_and_run_loop, line 55: the loop is created and published
create_and_run_loop_new ==
    /\ ProcessAlive
    /\ worker_pc = "spawned"
    /\ loop' = "open"
    /\ loops_created' = loops_created + 1
    /\ loop_assigns' = loop_assigns + 1
    /\ worker_pc' = "created"
    /\ UNCHANGED <<bot, google_service, loop_thread, bot_ready, main_pc, exit_code,
                   loop_seen, queue, task_state, init_result, started, http_pc, nreq,
                   last_webhook, last_diag, threads_created, ready_changes, gsVars>>

\* create_and_run_loop, lines 55, 59-60: new_event_loop raises; the error is
\* logged and the thread ends with loop still None
create_and_run_loop_error ==
    /\ ProcessAlive
    /\ worker_pc = "spawned"
    /\ worker_pc' = "ended"
    /\ UNCHANGED <<bot, google_service, loop, loop_thread, bot_ready, main_pc,
                   exit_code, loop_seen, queue, task_state, init_result, started,
                   http_pc, nreq, last_webhook, last_diag, threads_created,
                   loops_created, loop_assigns, ready_changes, gsVars>>

\* create_and_run_loop, lines 56-58: the thread enters run_forever
run_forever ==
    /\ ProcessAlive
    /\ worker_pc = "created"
    /\ worker_pc' = "running"
    /\ UNCHANGED <<bot, google_service, loop, loop_thread, bot_ready, main_pc,
                   exit_code, loop_seen, queue, task_state, init_result, started,
                   http_pc, nreq, last_webhook, last_diag, threads_created,
                   loops_created, loop_assigns, ready_changes, gsVars>>

\* the bug of a loop that takes the newest scheduled callback first
task_start_lifo ==
    /\ ProcessAlive
    /\ worker_pc = "running"
    /\ ~WorkerBusy
    /\ queue # <<>>
    /\ task_state' = [task_state EXCEPT ![queue[Len(queue)]] = "active"]
    /\ started' = Append(started, queue[Len(queue)])
    /\ queue' = SubSeq(queue, 1, Len(queue) - 1)
    /\ UNCHANGED <<bot, google_service, loop, loop_thread, bot_ready, main_pc,
                   exit_code, loop_seen, worker_pc, init_result, http_pc, nreq,
                   last_webhook, last_diag, threads_created, loops_created,
                   loop_assigns, ready_changes, gsVars>>

\* the loop takes the oldest scheduled callback and begins its task
task_start ==
    /\ ProcessAlive
    /\ worker_pc = "running"
    /\ ~WorkerBusy
    /\ queue # <<>>
    /\ task_state' = [task_state EXCEPT ![Head(queue)] = "active"]
    /\ started' = Append(started, Head(queue))
    /\ queue' = Tail(queue)
    /\ UNCHANGED <<bot, google_service, loop, loop_thread, bot_ready, main_pc,
                   exit_code, loop_seen, worker_pc, init_result, http_pc, nreq,
                   last_webhook, last_diag, threads_created, loops_created,
                   loop_assigns, ready_changes, gsVars>>

\* initialize_bot_async, lines 76-80: the bot is constructed and assigned, and
\* the task waits for initialize_application
initialize_bot_async_create ==
    /\ ProcessAlive
    /\ task_state[InitTask] = "active"
    /\ bot' = "Bot"
    /\ google_service' \in BOOLEAN
    /\ task_state' = [task_state EXCEPT ![InitTask] = "awaiting"]
    /\ UNCHANGED <<loop, loop_thread, bot_ready, main_pc, exit_code, loop_seen,
                   worker_pc, queue, init_result, started, http_pc, nreq, last_webhook,
                   last_diag, threads_created, loops_created, loop_assigns,
                   ready_changes, gsVars>>

\* initialize_bot_async, lines 77, 90-92: TelegramBot(...) raises; bot stays None
initialize_bot_async_create_error ==
    /\ ProcessAlive
    /\ task_state[InitTask] = "active"
    /\ task_state' = [task_state EXCEPT ![InitTask] = "done"]
    /\ init_result' = "False"
    /\ UNCHANGED <<bot, google_service, loop, loop_thread, bot_ready, main_pc,
                   exit_code, loop_seen, worker_pc, queue, started, http_pc, nreq,
                   last_webhook, last_diag, threads_created, loops_created,
                   loop_assigns, ready_changes, gsVars>>

\* initialize_bot_async, lines 80-92: initialize_application returns True (the
\* flag is set), returns False, or raises
initialize_bot_async_finish(success) ==
    /\ ProcessAlive
    /\ worker_pc = "running"
    /\ ~WorkerBusy
    /\ task_state[InitTask] = "awaiting"
    /\ task_state' = [task_state EXCEPT ![InitTask] = "done"]
    /\ bot_ready' = (success \/ bot_ready)
    /\ ready_changes' = ready_changes + (IF bot_ready' # bot_ready THEN 1 ELSE 0)
    /\ init_result' = IF success THEN "True" ELSE "False"
    /\ UNCHANGED <<bot, google_service, loop, loop_thread, main_pc, exit_code,
                   loop_seen, worker_pc, queue, started, http_pc, nreq, last_webhook,
                   last_diag, threads_created, loops_created, loop_assigns, gsVars>>

\* bot.process_update(update) running on the worker: it calls the Drive and
\* Sheets adapter (synchronous calls that hold the worker thread) ...
process_update_adapter_call(t) ==
    /\ ProcessAlive
    /\ t \in UpdateTasks
    /\ task_state[t] = "active"
    /\ task_state' = [task_state EXCEPT ![t] = "adapter"]
    /\ UNCHANGED <<bot, google_service, loop, loop_thread, bot_ready, main_pc,
                   exit_code, loop_seen, worker_pc, queue, init_result, started,
                   http_pc, nreq, last_webhook, last_diag, threads_created,
                   loops_created, loop_assigns, ready_changes, gsVars>>

\* ... the adapter call returns to the task ...
process_update_adapter_return(t) ==
    /\ ProcessAlive
    /\ t \in UpdateTasks
    /\ task_state[t] = "adapter"
    /\ task_state' = [task_state EXCEPT ![t] = "active"]
    /\ UNCHANGED <<bot, google_service, loop, loop_thread, bot_ready, main_pc,
                   exit_code, loop_seen, worker_pc, queue, init_result, started,
                   http_pc, nreq, last_webhook, last_diag, threads_created,
                   loops_created, loop_assigns, ready_changes, gsVars>>

\* ... it awaits a Telegram call, giving the worker back to the loop ...
process_update_await(t) ==
    /\ ProcessAlive
    /\ t \in UpdateTasks
    /\ task_state[t] = "active"
    /\ task_state' = [task_state EXCEPT ![t] = "awaiting"]
    /\ UNCHANGED <<bot, google_service, loop, loop_thread, bot_ready, main_pc,
                   exit_code, loop_seen, worker_pc, queue, init_result, started,
                   http_pc, nreq, last_webhook, last_diag, threads_created,
                   loops_created, loop_assigns, ready_changes, gsVars>>

\* ... the loop resumes it when the worker is free ...
process_update_resume(t) ==
    /\ ProcessAlive
    /\ worker_pc = "running"
    /\ ~WorkerBusy
    /\ t \in UpdateTasks
    /\ task_state[t] = "awaiting"
    /\ task_state' = [task_state EXCEPT ![t] = "active"]
    /\ UNCHANGED <<bot, google_service, loop, loop_thread, bot_ready, main_pc,
                   exit_code, loop_seen, worker_pc, queue, init_result, started,
                   http_pc, nreq, last_webhook, last_diag, threads_created,
                   loops_created, loop_assigns, ready_changes, gsVars>>

\* ... and it returns or raises; either way only its future learns of it
process_update_finish(t, ok) ==
    /\ ProcessAlive
    /\ t \in UpdateTasks
    /\ task_state[t] = "active"
    /\ task_state' = [task_state EXCEPT ![t] = IF ok THEN "done" ELSE "raised"]
    /\ UNCHANGED <<bot, google_service, loop, loop_thread, bot_ready, main_pc,
                   exit_code, loop_seen, worker_pc, queue, init_result, started,
                   http_pc, nreq, last_webhook, last_diag, threads_created,
                   loops_created, loop_assigns, ready_changes, gsVars>>

\* ----------------------------------------------------- HTTP: /webhook

\* request.get_json(force=True), line 243: a body that is no JSON document (or
\* no body at all) raises BadRequest; otherwise the parsed value, falsy or not
get_json(body) ==
    IF body \in {"empty", "malformed"} THEN "BadRequest"
    ELSE IF body = "falsy" THEN "falsy"
    ELSE "data"

\* Update.de_json(json_data, bot.application.bot), line 252: raises on a
\* document that is no update
de_json_raises(body) == body # "update"

Response(code, status, body_read, submit) ==
    [code |-> code, status |-> status, body_read |-> body_read, submit |-> submit]

\* the bug of serving the webhook without looking at bot_ready and bot
webhook_no_ready_check(ready, b, lp, body, submit_ok) ==
    IF lp = "None" \/ lp = "closed"
    THEN Response(503, "loop_error", FALSE, FALSE)
    ELSE IF get_json(body) = "BadRequest"
    THEN Response(500, "error", TRUE, FALSE)
    ELSE IF get_json(body) = "falsy"
    THEN Response(400, "invalid_data", TRUE, FALSE)
    ELSE IF de_json_raises(body) \/ ~submit_ok
    THEN Response(400, "parse_error", TRUE, FALSE)
    ELSE Response(200, "ok", TRUE, TRUE)

\* the bug of testing `not loop` alone, so that a closed loop passes
webhook_no_closed_check(ready, b, lp, body, submit_ok) ==
    IF ~ready \/ b = "None"
    THEN Response(503, "bot_not_ready", FALSE, FALSE)
    ELSE IF lp = "None"
    THEN Response(503, "loop_error", FALSE, FALSE)
    ELSE IF get_json(body) = "BadRequest"
    THEN Response(500, "error", TRUE, FALSE)
    ELSE IF get_json(body) = "falsy"
    THEN Response(400, "invalid_data", TRUE, FALSE)
    ELSE IF de_json_raises(body) \/ ~submit_ok \/ lp = "closed"
    THEN Response(400, "parse_error", TRUE, FALSE)
    ELSE Response(200, "ok", TRUE, TRUE)

\* the bug of scheduling the raw payload before it is converted
webhook_submit_first(ready, b, lp, body, submit_ok) ==
    IF ~ready \/ b = "None"
    THEN Response(503, "bot_not_ready", FALSE, FALSE)
    ELSE IF lp = "None" \/ lp = "closed"
    THEN Response(503, "loop_error", FALSE, FALSE)
    ELSE IF get_json(body) = "BadRequest"
    THEN Response(500, "error", TRUE, FALSE)
    ELSE IF get_json(body) = "falsy"
    THEN Response(400, "invalid_data", TRUE, FALSE)
    ELSE IF ~submit_ok
    THEN Response(400, "parse_error", TRUE, FALSE)
    ELSE IF de_json_raises(body)
    THEN Response(400, "parse_error", TRUE, TRUE)
    ELSE Response(200, "ok", TRUE, TRUE)

\* the bug of answering ok without handing the coroutine to the loop
webhook_no_submit(ready, b, lp, body, submit_ok) ==
    IF ~ready \/ b = "None"
    THEN Response(503, "bot_not_ready", FALSE, FALSE)
    ELSE IF lp = "None" \/ lp = "closed"
    THEN Response(503, "loop_error", FALSE, FALSE)
    ELSE IF get_json(body) = "BadRequest"
    THEN Response(500, "error", TRUE, FALSE)
    ELSE IF get_json(body) = "falsy"
    THEN Response(400, "invalid_data", TRUE, FALSE)
    ELSE IF de_json_raises(body) \/ ~submit_ok
    THEN Response(400, "parse_error", TRUE, FALSE)
    ELSE Response(200, "ok", TRUE, FALSE)

\* webhook, lines 231-269, as a function of the globals it reads (ready, b,
\* lp), of the request body and of whether handing the coroutine to the loop
\* works: the response, whether the body was read and whether a task was
\* submitted. The BadRequest of get_json is caught by line 267: 500.
webhook(ready, b, lp, body, submit_ok) ==
    IF ~ready \/ b = "None"
    THEN Response(503, "bot_not_ready", FALSE, FALSE)
    ELSE IF lp = "None" \/ lp = "closed"
    THEN Response(503, "loop_error", FALSE, FALSE)
    ELSE IF get_json(body) = "BadRequest"
    THEN Response(500, "error", TRUE, FALSE)
    ELSE IF get_json(body) = "falsy"
    THEN Response(400, "invalid_data", TRUE, FALSE)
    ELSE IF de_json_raises(body) \/ ~submit_ok
    THEN Response(400, "parse_error", TRUE, FALSE)
    ELSE Response(200, "ok", TRUE, TRUE)

\* the next unused task number
NextTask == Cardinality(ScheduledUpdates) + 1

\* POST /webhook handled by an HTTP thread, lines 229-269; the handler neither
\* blocks nor waits for the future it gets at line 255. submit_ok: lines
\* 255-258 do not raise (they raise when the loop is closed under the handler)
post_webhook(body, submit_ok) ==
    LET r == webhook(bot_ready, bot, loop, body, submit_ok) IN
    /\ main_pc = "serving"
    /\ nreq < MaxRequests
    /\ r.submit => NextTask <= MaxUpdates
    /\ nreq' = nreq + 1
    /\ IF r.submit
       THEN /\ queue' = Append(queue, NextTask)
            /\ task_state' = [task_state EXCEPT ![NextTask] = "queued"]
       ELSE UNCHANGED <<queue, task_state>>
    /\ last_webhook' =
          [handled |-> TRUE, ready |-> bot_ready, bot |-> bot, loop |-> loop,
           body |-> body, code |-> r.code, status |-> r.status,
           body_read |-> r.body_read, submit_ok |-> submit_ok,
           submitted |-> Len(queue') - Len(queue),
           task |-> IF r.submit THEN NextTask ELSE 0,
           task_state |-> IF r.submit THEN task_state'[NextTask] ELSE "none"]
    /\ UNCHANGED <<bot, google_service, loop, loop_thread, bot_ready, main_pc,
                   exit_code, loop_seen, worker_pc, init_result, started, http_pc,
                   last_diag, threads_created, loops_created, loop_assigns,
                   ready_changes, gsVars>>

\* ------------------------------------------- HTTP: the diagnostic routes

\* what a diagnostic route answers when bot or bot.google_service is missing:
\* index, lines 147-155, answers 200 without the service account info; the
\* other two answer 503, lines 173-177 and 207-211
diag_unavailable_code(route) == IF route = "index" THEN 200 ELSE 503

\* index line 149, test_service_account_endpoint lines 180-186 (through
\* test_service_account_access, line 115) and cleanup_endpoint line 214: the
\* HTTP thread itself calls the methods of bot.google_service
diag_call(t, route) ==
    /\ main_pc = "serving"
    /\ nreq < MaxRequests
    /\ http_pc[t] = "idle"
    /\ nreq' = nreq + 1
    /\ IF bot = "None" \/ ~google_service
       THEN /\ last_diag' = [route |-> route, code |-> diag_unavailable_code(route),
                             thread |-> "http"]
            /\ UNCHANGED http_pc
       ELSE /\ http_pc' = [http_pc EXCEPT ![t] = route]
            /\ UNCHANGED last_diag
    /\ UNCHANGED <<bot, google_service, loop, loop_thread, bot_ready, main_pc,
                   exit_code, loop_seen, worker_pc, queue, task_state, init_result,
                   started, last_webhook, threads_created, loops_created,
                   loop_assigns, ready_changes, gsVars>>

\* the adapter methods return (each catches its own errors) and the route
\* answers 200: lines 155, 188-194, 216-220
diag_return(t) ==
    /\ main_pc = "serving"
    /\ http_pc[t] # "idle"
    /\ last_diag' = [route |-> http_pc[t], code |-> 200, thread |-> "http"]
    /\ http_pc' = [http_pc EXCEPT ![t] = "idle"]
    /\ UNCHANGED <<bot, google_service, loop, loop_thread, bot_ready, main_pc,
                   exit_code, loop_seen, worker_pc, queue, task_state, init_result,
                   started, nreq, last_webhook, threads_created, loops_created,
                   loop_assigns, ready_changes, gsVars>>

\* health, lines 157-167: reads the globals and two attributes, calls nothing
health ==
    /\ main_pc = "serving"
    /\ nreq < MaxRequests
    /\ nreq' = nreq + 1
    /\ last_diag' = [route |-> "health", code |-> 200, thread |-> "http"]
    /\ UNCHANGED <<bot, google_service, loop, loop_thread, bot_ready, main_pc,
                   exit_code, loop_seen, worker_pc, queue, task_state, init_result,
                   started, http_pc, last_webhook, threads_created, loops_created,
                   loop_assigns, ready_changes, gsVars>>

\* the threads that are inside a method of the GoogleService adapter
AdapterCallers ==
    (IF main_pc = "in_access_test" THEN {"main"} ELSE {})
    \cup (IF \E t \in Threads : http_pc[t] # "idle" THEN {"http"} ELSE {})
    \cup (IF \E t \in Tasks : task_state[t] = "adapter" THEN {"worker"} ELSE {})

\* ------------------------------------------------- GoogleService (Drive)

NoFolder == 0
ParentFolderId == "PARENT_FOLDER_ID"
FolderNames == {"a", "b"}
ParentArgs == {"None", "p"}
RemoteOutcomes == {"ok", "HttpError"}

\* _set_folder_permissions, lines 150-171: the ownership transfer is tried and
\* a failure of it is only logged
set_folder_permissions(permission) ==
    [owner |-> IF permission = "ok" THEN "OWNER_EMAIL" ELSE "service_account",
     raised |-> FALSE]

\* the bug of letting the remote error of files().create() escape
create_folder_uncaught(sd, name, parent, create, permission, new_id) ==
    IF ~sd
    THEN [ret |-> NoFolder, raised |-> FALSE, folders |-> <<>>]
    ELSE IF create # "ok"
    THEN [ret |-> NoFolder, raised |-> TRUE, folders |-> <<>>]
    ELSE [ret |-> new_id, raised |-> FALSE,
          folders |-> <<[id |-> new_id, name |-> name,
                        parent |-> IF parent = "None" THEN ParentFolderId ELSE parent,
                        owner |-> set_folder_permissions(permission).owner]>>]

\* create_folder, lines 116-148: what it returns, whether it raises, and the
\* folder the remote Drive gains. sd: service_drive is built; create and
\* permission: what the two remote calls do; new_id: the id Drive would give
create_folder(sd, name, parent, create, permission, new_id) ==
    IF ~sd
    THEN [ret |-> NoFolder, raised |-> FALSE, folders |-> <<>>]
    ELSE IF create # "ok"
    THEN [ret |-> NoFolder, raised |-> FALSE, folders |-> <<>>]
    ELSE [ret |-> new_id, raised |-> set_folder_permissions(permission).raised,
          folders |-> <<[id |-> new_id, name |-> name,
                        parent |-> IF parent = "None" THEN ParentFolderId ELSE parent,
                        owner |-> set_folder_permissions(permission).owner]>>]

\* authenticate, lines 70-114: the services are built unless the key cannot be
\* decoded or build() fails
authenticate(outcome) ==
    /\ outcome \in {"ok", "decode_error"}
    /\ service_drive' = (service_drive \/ outcome = "ok")
    /\ UNCHANGED <<drive_folders, cf_last, ncf, appVars>>

\* a call of create_folder on the object
call_create_folder(name, parent, create, permission) ==
    LET r == create_folder(service_drive, name, parent, create, permission,
                           Len(drive_folders) + 1) IN
    /\ ncf < MaxFolders
    /\ ncf' = ncf + 1
    /\ drive_folders' = drive_folders \o r.folders
    /\ cf_last' = [called |-> TRUE, authenticated |-> service_drive,
                   create |-> create, permission |-> permission,
                   ret |-> r.ret, raised |-> r.raised]
    /\ UNCHANGED <<service_drive, appVars>>

\* ------------------------------------------------------ specifications

\* module globals of lines 46-49, before startup() runs at line 302
AppInit ==
    /\ bot = "None"
    /\ google_service = FALSE
    /\ loop = "None"
    /\ loop_thread = "None"
    /\ bot_ready = FALSE
    /\ main_pc = "start"
    /\ exit_code = -1
    /\ loop_seen = "unread"
    /\ worker_pc = "none"
    /\ queue = <<>>
    /\ task_state = [t \in Tasks |-> "none"]
    /\ init_result = "pending"
    /\ started = <<>>
    /\ http_pc = [t \in Threads |-> "idle"]
    /\ nreq = 0
    /\ last_webhook = NoWebhook
    /\ last_diag = NoDiag
    /\ threads_created = 0
    /\ loops_created = 0
    /\ loop_assigns = 0
    /\ ready_changes = 0

\* GoogleService.__init__, lines 22-36
GsInit ==
    /\ service_drive = FALSE
    /\ drive_folders = <<>>
    /\ cf_last = NoCreateFolder
    /\ ncf = 0

Init == AppInit /\ GsInit

Next ==
    \/ start_event_loop_spawn
    \/ start_event_loop_return
    \/ initialize_bot
    \/ future_result_returns
    \/ future_result_timeout
    \/ startup_access_test_call
    \/ \E passed \in BOOLEAN : startup_access_test_return(passed)
    \/ process_exit
    \/ create_and_run_loop_new
    \/ create_and_run_loop_error
    \/ run_forever
    \/ task_start
    \/ initialize_bot_async_create
    \/ initialize_bot_async_create_error
    \/ \E success \in BOOLEAN : initialize_bot_async_finish(success)
    \/ \E t \in UpdateTasks : process_update_adapter_call(t)
    \/ \E t \in UpdateTasks : process_update_adapter_return(t)
    \/ \E t \in UpdateTasks : process_update_await(t)
    \/ \E t \in UpdateTasks : process_update_resume(t)
    \/ \E t \in UpdateTasks, ok \in BOOLEAN : process_update_finish(t, ok)
    \/ \E body \in Bodies : post_webhook(body, TRUE)
    \/ \E t \in Threads, route \in DiagRoutes : diag_call(t, route)
    \/ \E t \in Threads : diag_return(t)
    \/ health

Spec == Init /\ [][Next]_vars

\* the handler entered with the globals in any of the values they can hold
WebhookInit ==
    /\ bot \in {"None", "Bot"}
    /\ google_service = (bot = "Bot")
    /\ loop \in {"None", "open", "closed"}
    /\ loop_thread = IF loop = "None" THEN "None" ELSE "Thread"
    /\ bot_ready \in BOOLEAN
    /\ main_pc = "serving"
    /\ exit_code = -1
    /\ loop_seen = loop
    /\ worker_pc = IF loop = "open" THEN "running" ELSE IF loop = "closed" THEN "ended"
                   ELSE "none"
    /\ queue = <<>>
    /\ task_state = [t \in Tasks |-> "none"]
    /\ init_result = IF bot_ready THEN "True" ELSE "pending"
    /\ started = <<>>
    /\ http_pc = [t \in Threads |-> "idle"]
    /\ nreq = 0
    /\ last_webhook = NoWebhook
    /\ last_diag = NoDiag
    /\ threads_created = IF loop = "None" THEN 0 ELSE 1
    /\ loops_created = IF loop = "None" THEN 0 ELSE 1
    /\ loop_assigns = IF loop = "None" THEN 0 ELSE 1
    /\ ready_changes = IF bot_ready THEN 1 ELSE 0
    /\ GsInit

WebhookNext ==
    \/ \E body \in Bodies, submit_ok \in BOOLEAN : post_webhook(body, submit_ok)
    \/ task_start
    \/ \E t \in UpdateTasks : process_update_adapter_call(t)
    \/ \E t \in UpdateTasks : process_update_adapter_return(t)
    \/ \E t \in UpdateTasks : process_update_await(t)
    \/ \E t \in UpdateTasks : process_update_resume(t)
    \/ \E t \in UpdateTasks, ok \in BOOLEAN : process_update_finish(t, ok)

WebhookSpec == WebhookInit /\ [][WebhookNext]_vars

AdapterInit == GsInit /\ AppInit

AdapterNext ==
    \/ \E outcome \in {"ok", "decode_error"} : authenticate(outcome)
    \/ \E name \in FolderNames, parent \in ParentArgs,
          create \in RemoteOutcomes, permission \in RemoteOutcomes :
          call_create_folder(name, parent, create, permission)

AdapterSpec == AdapterInit /\ [][AdapterNext]_vars

\* ------------------------------------------------------------- claims

\* the last webhook was handled with the bot ready and the loop open
HandledReady ==
    /\ last_webhook.handled
    /\ last_webhook.ready
    /\ last_webhook.bot # "None"
    /\ last_webhook.loop = "open"

\* C1 (WebhookSpec): a POST /webhook handled while bot_ready is false or bot is
\* None is answered 503 bot_not_ready and submits nothing, whatever its body
\* and whatever the loop; and while the globals are so, the loop holds no
\* processing task.
C1_NotReadyRejected ==
    /\ (~bot_ready \/ bot = "None") => ScheduledUpdates = {}
    /\ (last_webhook.handled /\ (~last_webhook.ready \/ last_webhook.bot = "None"))
          => /\ last_webhook.code = 503
             /\ last_webhook.status = "bot_not_ready"
             /\ last_webhook.submitted = 0
             /\ last_webhook.task = 0

\* C1 witness: a valid update, posted with the loop open and the bot built but
\* not ready, was turned away.
C1_Witness ==
    /\ last_webhook.handled
    /\ ~last_webhook.ready
    /\ last_webhook.bot = "Bot"
    /\ last_webhook.loop = "open"
    /\ last_webhook.body = "update"
    /\ last_webhook.status = "bot_not_ready"

\* C2 (Spec), the claim as stated: with the bot ready and the loop open, a
\* body that is empty or is no JSON document or is no update is answered 400,
\* invalid_data or parse_error, and submits nothing.
C2_BadBodyAnswered400 ==
    (HandledReady /\ last_webhook.body \in {"empty", "malformed", "falsy", "bad_update"})
       => /\ last_webhook.code = 400
          /\ last_webhook.status \in {"invalid_data", "parse_error"}
          /\ last_webhook.submitted = 0

\* C3 (Spec): with the bot ready and the loop open, a POST /webhook carrying a
\* valid update is answered 200 ok and adds exactly one task to the loop, a
\* task that has not begun when the response is produced; and the recorded
\* response is 200 ok whatever has become of that task since.
C3_ValidUpdateQueuedOnce ==
    /\ (HandledReady /\ last_webhook.body = "update")
          => /\ last_webhook.code = 200
             /\ last_webhook.status = "ok"
             /\ last_webhook.submitted = 1
             /\ last_webhook.task \in UpdateTasks
             /\ last_webhook.task_state = "queued"
    /\ last_webhook.task \in UpdateTasks
          => /\ task_state[last_webhook.task] # "none"
             /\ last_webhook.code = 200
             /\ last_webhook.status = "ok"

\* C3 witness: the 200 ok is out and the task it queued has since raised.
C3_Witness ==
    /\ HandledReady
    /\ last_webhook.body = "update"
    /\ last_webhook.status = "ok"
    /\ last_webhook.task_state = "queued"
    /\ task_state[last_webhook.task] = "raised"

\* C4 (Spec): bot_ready changes value at most once, and only from false to
\* true: after its one change it is true, before it false.
C4_ReadyOnce ==
    /\ ready_changes <= 1
    /\ bot_ready <=> (ready_changes = 1)

\* C4 witness: the flag was set, startup finished its access test with a
\* failure, and requests are being served with the flag still set.
C4_Witness ==
    /\ bot_ready
    /\ ready_changes = 1
    /\ main_pc = "serving"
    /\ ~google_service
    /\ last_webhook.status = "ok"

\* C5 (Spec), the claim as stated: only the worker thread is ever inside a
\* method of the GoogleService adapter.
C5_AdapterOnlyOnWorker == AdapterCallers \subseteq {"worker"}

\* C6 (WebhookSpec): with the bot ready and the loop None or closed, a POST
\* /webhook is answered 503 loop_error, the body is not read and nothing is
\* submitted.
C6_LoopErrorRejected ==
    (/\ last_webhook.handled
     /\ last_webhook.ready
     /\ last_webhook.bot # "None"
     /\ last_webhook.loop \in {"None", "closed"})
       => /\ last_webhook.code = 503
          /\ last_webhook.status = "loop_error"
          /\ ~last_webhook.body_read
          /\ last_webhook.submitted = 0

\* C6 witness: ready bot, closed loop, a request turned away with loop_error.
C6_Witness ==
    /\ last_webhook.handled
    /\ last_webhook.ready
    /\ last_webhook.bot = "Bot"
    /\ last_webhook.loop = "closed"
    /\ last_webhook.status = "loop_error"

\* C7 (WebhookSpec): with the bot ready, the loop open and a non-empty JSON
\* body, a failure of the conversion to an Update or of the submission is
\* answered 400 parse_error and leaves the loop without a task for the request.
C7_ParseErrorRejected ==
    (/\ HandledReady
     /\ last_webhook.body \in {"bad_update", "update"}
     /\ (de_json_raises(last_webhook.body) \/ ~last_webhook.submit_ok))
       => /\ last_webhook.code = 400
          /\ last_webhook.status = "parse_error"
          /\ last_webhook.submitted = 0
          /\ last_webhook.task = 0

\* C7 witness: a JSON document that is no update was answered parse_error.
C7_Witness ==
    /\ HandledReady
    /\ last_webhook.body = "bad_update"
    /\ last_webhook.status = "parse_error"

\* C8 (Spec): at most one thread is started, at most one loop is created and
\* the global loop is assigned at most once; a published loop was assigned
\* exactly once, and once startup has returned there is exactly one of each.
C8_OneLoopOneThread ==
    /\ threads_created <= 1
    /\ loops_created <= 1
    /\ loop_assigns <= 1
    /\ loop # "None" => loop_assigns = 1 /\ loops_created = 1 /\ threads_created = 1
    /\ main_pc = "serving"
          => threads_created = 1 /\ loops_created = 1 /\ loop_assigns = 1

\* C8 witness: the service has answered a webhook and a diagnostic request and
\* there is one thread and one loop.
C8_Witness ==
    /\ main_pc = "serving"
    /\ last_webhook.status = "ok"
    /\ last_diag.route = "test_service_account"
    /\ threads_created = 1
    /\ loops_created = 1

\* C9 (Spec): if the loop was not published when the spawning thread looked
\* after its wait, the process is exiting or has exited with status 1, the
\* initialization task was never submitted and no request was ever served.
C9_SlowWorkerFatal ==
    loop_seen = "None"
       => /\ main_pc \in {"exiting", "exited"}
          /\ exit_code = 1
          /\ task_state[InitTask] = "none"
          /\ queue = <<>>
          /\ nreq = 0
          /\ ~last_webhook.handled

\* C9 witness: the worker was merely slow; it published and ran its loop after
\* the spawning thread had looked, and the process exited all the same.
C9_Witness ==
    /\ loop_seen = "None"
    /\ loop = "open"
    /\ worker_pc = "running"
    /\ main_pc = "exited"

\* C10 (AdapterSpec): create_folder does not raise; it returns None when the
\* Drive service is not built or the remote create fails; and an id it returns
\* is the id of a folder the remote create made.
C10_CreateFolderSentinel ==
    cf_last.called
       => /\ ~cf_last.raised
          /\ (~cf_last.authenticated \/ cf_last.create # "ok") => cf_last.ret = NoFolder
          /\ cf_last.ret # NoFolder
                => /\ cf_last.authenticated
                   /\ cf_last.create = "ok"
                   /\ \E i \in 1..Len(drive_folders) : drive_folders[i].id = cf_last.ret

\* C10 witness: an authenticated service whose remote create failed gave None.
C10_Witness ==
    /\ cf_last.called
    /\ cf_last.authenticated
    /\ cf_last.create = "HttpError"
    /\ cf_last.ret = NoFolder

\* the worker began task a before it began task b (post_webhook numbers the
\* tasks in the order it submits them, so a < b says a was submitted first)
StartedBefore(a, b) ==
    \E i, j \in 1..Len(started) : i < j /\ started[i] = a /\ started[j] = b

\* C11 (Spec): the worker begins processing tasks in the order of their
\* submission: of two submitted tasks the later one is never begun while the
\* earlier one is still waiting in the loop, and in the order of beginnings the
\* earlier one comes first.
C11_FifoStart ==
    \A a, b \in UpdateTasks :
        (a < b /\ task_state[b] \notin {"none", "queued"})
           => /\ task_state[a] \notin {"none", "queued"}
              /\ StartedBefore(a, b)
              /\ ~StartedBefore(b, a)

\* C11 witness: two webhooks were accepted; the first task was begun and is
\* suspended at an await, and the second has been begun after it.
C11_Witness ==
    /\ Len(started) = 3
    /\ StartedBefore(1, 2)
    /\ task_state[1] = "awaiting"
    /\ task_state[2] = "active"

\* C12 (Spec): once startup() has returned, the loop and the bot are set and
\* bot_ready is true, and no exit was called; and once initialize_bot has
\* returned False after submitting the task (or startup has called exit(1) for
\* any reason) the process is exiting or gone and no request is ever served,
\* whatever the task does to bot_ready afterwards.
C12_ServingMeansReady ==
    /\ main_pc = "serving"
          => /\ loop # "None"
             /\ bot # "None"
             /\ bot_ready
             /\ init_result = "True"
             /\ exit_code = -1
    /\ exit_code = 1
          => /\ main_pc \in {"exiting", "exited"}
             /\ nreq = 0
             /\ ~last_webhook.handled
             /\ \A t \in Threads : http_pc[t] = "idle"

\* C12 witness: the 60-second wait timed out, startup called exit(1), the
\* task went on to set bot_ready, and the process ended without serving.
C12_Witness ==
    /\ main_pc = "exited"
    /\ exit_code = 1
    /\ task_state[InitTask] = "done"
    /\ init_result = "True"
    /\ bot_ready
    /\ nreq = 0

====
